---- MODULE Spec2Model ----
(***************************************************************************)
(* A model of the symba expression graph (crate asg): the flat node        *)
(* vector of a Tree, composition by binary_op / unary_op, the depth-first  *)
(* walker, the structural hasher, the equivalence check, deduplication,    *)
(* trimming and evaluation.                                                *)
(*                                                                         *)
(* Node indices are 0-based, as in the source; a node vector is a TLA+     *)
(* sequence, so the node at index i of `nodes` is nodes[i + 1] (At).       *)
(***************************************************************************)
EXTENDS Integers, Sequences, FiniteSets, TLC

VARIABLES
    lhs,    \* a Tree's node vector (<<>>: no tree, or moved away)
    rhs,    \* a second Tree's node vector (<<>>: no tree, or moved away)
    op,     \* the name of the last operation that ran
    arg,    \* the inputs that operation consumed
    out,    \* what that operation returned
    trimmer,    \* a Trimmer: its scratch buffers indices and trimmed
    eval,       \* the registers of an Evaluator of lhs (<<>>: no Evaluator)
    TEMPLATES   \* a Vec<Template>

vars == <<lhs, rhs, op, arg, out, trimmer, eval, TEMPLATES>>

----------------------------------------------------------------------------
(* Bounds of the model.                                                    *)

\* Longest node vector the two trees of Spec may hold together.
MaxLen == 7

\* Longest raw node vector of SpecNodes.
MaxNodes == 4

\* Longest node vector of SpecTrim.
MaxTrimNodes == 4

\* Longest node vector of the tree of SpecEval.
MaxEvalNodes == 4

\* Longest Vec<Template> of SpecTemplates before it is mirrored.
MaxTemplates == 3

\* Longest node vector of SpecRun.
MaxRunNodes == 4

\* Longest node vector of SpecWalk.
MaxWalkNodes == 4

----------------------------------------------------------------------------
(* Node model and operator sets: tree.rs, helper.rs.                       *)

UnaryOp == {"Negate", "Sqrt", "Abs", "Sin", "Cos", "Tan", "Log", "Exp"}

BinaryOp == {"Add", "Subtract", "Multiply", "Divide", "Pow", "Min", "Max"}

Constant(value) == [tag |-> "Constant", value |-> value]

Symbol(label) == [tag |-> "Symbol", label |-> label]

Unary(o, input) == [tag |-> "Unary", op |-> o, input |-> input]

Binary(o, l, r) == [tag |-> "Binary", op |-> o, lhs |-> l, rhs |-> r]

\* UnaryOp::index
UnaryOp_index(o) ==
    CASE o = "Negate" -> 0
      [] o = "Sqrt" -> 1
      [] o = "Abs" -> 2
      [] o = "Sin" -> 3
      [] o = "Cos" -> 4
      [] o = "Tan" -> 5
      [] o = "Log" -> 6
      [] o = "Exp" -> 7

\* BinaryOp::index
BinaryOp_index(o) ==
    CASE o = "Add" -> 0
      [] o = "Subtract" -> 1
      [] o = "Multiply" -> 2
      [] o = "Divide" -> 3
      [] o = "Pow" -> 4
      [] o = "Min" -> 5
      [] o = "Max" -> 6

\* BinaryOp::is_commutative: the commutative set is {Add, Multiply, Min, Max}.
is_commutative(o) == o \in {"Add", "Multiply", "Min", "Max"}

\* A char's scalar value, which is what char::cmp and char::hash read.
CharCode(c) ==
    CASE c = "x" -> 120
      [] c = "y" -> 121
      [] c = "z" -> 122

\* nodes[index]
At(nodes, index) == nodes[index + 1]

----------------------------------------------------------------------------
(* Tree: tree.rs.                                                          *)

\* Tree::new
Tree_new(node) == <<node>>

\* Tree::len
len(nodes) == Len(nodes)

\* Tree::root_index
root_index(nodes) == len(nodes) - 1

\* The closure binary_op maps over other.nodes: operand indices move by offset.
OffsetNode(node, offset) ==
    CASE node.tag = "Constant" -> Constant(node.value)
      [] node.tag = "Symbol" -> Symbol(node.label)
      [] node.tag = "Unary" -> Unary(node.op, node.input + offset)
      [] node.tag = "Binary" -> Binary(node.op, node.lhs + offset, node.rhs + offset)

\* binary_op reading self.nodes.len() after the push of the new root.
binary_op_len_after_push(self, other, o) ==
    LET offset == Len(self)
        extended == self \o [k \in 1..Len(other) |-> OffsetNode(other[k], offset)]
    IN  Append(extended, Binary(o, offset - 1, Len(extended)))

\* binary_op copying other.nodes without moving their operand indices.
binary_op_no_offset(self, other, o) ==
    LET offset == Len(self)
        extended == self \o other
    IN  Append(extended, Binary(o, offset - 1, Len(extended) - 1))

\* Tree::binary_op
binary_op(self, other, o) ==
    LET offset == Len(self)
        extended == self \o [k \in 1..Len(other) |-> OffsetNode(other[k], offset)]
    IN  Append(extended, Binary(o, offset - 1, Len(extended) - 1))

\* Tree::unary_op
unary_op(self, o) == Append(self, Unary(o, root_index(self)))

----------------------------------------------------------------------------
(* Ordering of nodes and the depth-first walker: helper.rs.                *)

\* Option<usize>::None, for a frame's parent.
NoParent == -1

\* Option::None, for the item an exhausted iterator returns.
None == <<>>

\* Ord::cmp on two integers.
Cmp(a, b) == IF a < b THEN "Less" ELSE IF a > b THEN "Greater" ELSE "Equal"

\* impl PartialOrd for Node: Constant < Symbol < Unary < Binary, and within a
\* variant by value, label or operator index; the operands are never read.
partial_cmp(self, other) ==
    CASE self.tag = "Constant" ->
            (CASE other.tag = "Constant" -> Cmp(self.value, other.value)
               [] other.tag = "Symbol" -> "Less"
               [] other.tag = "Unary" -> "Less"
               [] other.tag = "Binary" -> "Less")
      [] self.tag = "Symbol" ->
            (CASE other.tag = "Constant" -> "Greater"
               [] other.tag = "Symbol" -> Cmp(CharCode(self.label), CharCode(other.label))
               [] other.tag = "Unary" -> "Less"
               [] other.tag = "Binary" -> "Less")
      [] self.tag = "Unary" ->
            (CASE other.tag = "Constant" -> "Greater"
               [] other.tag = "Symbol" -> "Greater"
               [] other.tag = "Unary" -> Cmp(UnaryOp_index(self.op), UnaryOp_index(other.op))
               [] other.tag = "Binary" -> "Less")
      [] self.tag = "Binary" ->
            (CASE other.tag = "Constant" -> "Greater"
               [] other.tag = "Symbol" -> "Greater"
               [] other.tag = "Unary" -> "Greater"
               [] other.tag = "Binary" -> Cmp(BinaryOp_index(self.op), BinaryOp_index(other.op)))

\* DepthWalker::walk_nodes: the stack holds the root, no node is visited.
walk_nodes(nodes, root, unique, ordering) ==
    [unique |-> unique,
     ordering |-> ordering,
     last_pushed |-> 0,
     nodes |-> nodes,
     stack |-> <<<<root, NoParent>>>>,
     visited |-> [k \in 1..Len(nodes) |-> FALSE]]

\* sort_children exchanging the two children whatever the ordering.
sort_children_exchanging(it, children) == <<children[2], children[1]>>

\* DepthIterator::sort_children on the two children of a Binary node: a
\* stable sort, so the pair is swapped only when the first is Greater.
sort_children(it, children) ==
    IF it.ordering = "Original"
    THEN children
    ELSE IF partial_cmp(At(it.nodes, children[1]), At(it.nodes, children[2])) = "Greater"
         THEN <<children[2], children[1]>>
         ELSE children

\* skip_children popping one frame when any was pushed.
skip_children_one(it) ==
    LET n == IF it.last_pushed >= 1 /\ Len(it.stack) >= 1 THEN 1 ELSE 0
    IN  [it EXCEPT !.stack = SubSeq(it.stack, 1, Len(it.stack) - n)]

\* DepthIterator::skip_children: pops last_pushed frames (pop on an empty
\* stack does nothing).
skip_children(it) ==
    LET n == IF it.last_pushed <= Len(it.stack) THEN it.last_pushed ELSE Len(it.stack)
    IN  [it EXCEPT !.stack = SubSeq(it.stack, 1, Len(it.stack) - n)]

\* The head of next taking the top frame, visited or not.
PopFrame_any(stack, visited, unique) ==
    IF stack = <<>>
    THEN [found |-> FALSE, stack |-> stack]
    ELSE [found |-> TRUE, index |-> stack[Len(stack)][1], parent |-> stack[Len(stack)][2],
          stack |-> SubSeq(stack, 1, Len(stack) - 1)]

\* The head of next: pop until a frame whose node is not visited (or, when
\* unique is false, the first frame); the `?` ends the walk on an empty stack.
RECURSIVE PopFrame(_, _, _)
PopFrame(stack, visited, unique) ==
    IF stack = <<>>
    THEN [found |-> FALSE, stack |-> stack]
    ELSE LET top == stack[Len(stack)]
             rest == SubSeq(stack, 1, Len(stack) - 1)
         IN  IF unique /\ visited[top[1] + 1]
             THEN PopFrame(rest, visited, unique)
             ELSE [found |-> TRUE, index |-> top[1], parent |-> top[2], stack |-> rest]

\* impl Iterator for DepthIterator: next. Returns the item and the iterator
\* after the call.
DepthIterator_next(it) ==
    LET popped == PopFrame(it.stack, it.visited, it.unique)
    IN  IF ~popped.found
        THEN [item |-> None, it |-> [it EXCEPT !.stack = popped.stack]]
        ELSE LET index == popped.index
                 node == At(it.nodes, index)
                 children ==
                     CASE node.tag = "Constant" -> <<>>
                       [] node.tag = "Symbol" -> <<>>
                       [] node.tag = "Unary" -> <<node.input>>
                       [] node.tag = "Binary" -> sort_children(it, <<node.rhs, node.lhs>>)
                 pushed == [k \in 1..Len(children) |-> <<children[k], index>>]
             IN  [item |-> <<index, popped.parent>>,
                  it |-> [it EXCEPT !.stack = popped.stack \o pushed,
                                    !.last_pushed = Len(children),
                                    !.visited = [it.visited EXCEPT ![index + 1] = TRUE]]]

\* for (index, parent) in iter { items.push((index, parent)) }
RECURSIVE Collect(_, _)
Collect(it, items) ==
    LET step == DepthIterator_next(it)
    IN  IF step.item = None
        THEN items
        ELSE Collect(step.it, Append(items, step.item))

\* The iterator after n calls of next that yielded a node.
RECURSIVE Advance(_, _)
Advance(it, n) ==
    IF n = 0
    THEN it
    ELSE Advance(DepthIterator_next(it).it, n - 1)

\* The loop of equivalent on one iterator: the items of a walk in which
\* skip_children is called right after item number s is yielded.
RECURSIVE CollectSkipping(_, _, _)
CollectSkipping(it, s, items) ==
    LET step == DepthIterator_next(it)
    IN  IF step.item = None
        THEN items
        ELSE CollectSkipping(
                 IF Len(items) + 1 = s THEN skip_children(step.it) ELSE step.it,
                 s, Append(items, step.item))

\* The loop of Tree::depth_first_traverse with a visitor that records its
\* arguments.
RECURSIVE TraverseLoop(_, _, _)
TraverseLoop(nodes, stack, items) ==
    IF stack = <<>>
    THEN items
    ELSE LET index == stack[Len(stack)][1]
             parent == stack[Len(stack)][2]
             rest == SubSeq(stack, 1, Len(stack) - 1)
             node == At(nodes, index)
             pushed ==
                 CASE node.tag = "Constant" -> <<>>
                   [] node.tag = "Symbol" -> <<>>
                   [] node.tag = "Unary" -> <<<<node.input, index>>>>
                   [] node.tag = "Binary" -> <<<<node.rhs, index>>, <<node.lhs, index>>>>
         IN  TraverseLoop(nodes, rest \o pushed, Append(items, <<index, parent>>))

\* Tree::depth_first_traverse
depth_first_traverse(self) ==
    TraverseLoop(self, <<<<root_index(self), NoParent>>>>, <<>>)

----------------------------------------------------------------------------
(* Structural equivalence: dedup.rs, helper.rs.                            *)

\* The match of equivalent / eq_recursive on a pair of nodes: the variant and
\* its value, label or operator agree; operands are not compared.
ShapeEq(a, b) ==
    CASE a.tag = "Constant" /\ b.tag = "Constant" -> a.value = b.value
      [] a.tag = "Symbol" /\ b.tag = "Symbol" -> a.label = b.label
      [] a.tag = "Unary" /\ b.tag = "Unary" -> a.op = b.op
      [] a.tag = "Binary" /\ b.tag = "Binary" -> a.op = b.op
      [] OTHER -> FALSE

\* The loop of equivalent with riter.skip_children() left out of the shortcut.
RECURSIVE EquivalentLoop_skip_left(_, _, _)
EquivalentLoop_skip_left(liter, riter, ptr_eq) ==
    LET l == DepthIterator_next(liter)
        r == DepthIterator_next(riter)
    IN  IF l.item = None /\ r.item = None
        THEN TRUE
        ELSE IF l.item = None \/ r.item = None
        THEN FALSE
        ELSE LET li == l.item[1]
                 ri == r.item[1]
             IN  IF ptr_eq /\ li = ri
                 THEN EquivalentLoop_skip_left(skip_children(l.it), r.it, ptr_eq)
                 ELSE IF ~ShapeEq(At(liter.nodes, li), At(riter.nodes, ri))
                 THEN FALSE
                 ELSE EquivalentLoop_skip_left(l.it, r.it, ptr_eq)

\* The loop of equivalent over the zipped iterators. ptr_eq is
\* std::ptr::eq(lnodes, rnodes): the two slices are one object.
RECURSIVE EquivalentLoop(_, _, _)
EquivalentLoop(liter, riter, ptr_eq) ==
    LET l == DepthIterator_next(liter)
        r == DepthIterator_next(riter)
    IN  IF l.item = None /\ r.item = None
        THEN TRUE
        ELSE IF l.item = None \/ r.item = None
        THEN FALSE
        ELSE LET li == l.item[1]
                 ri == r.item[1]
             IN  IF ptr_eq /\ li = ri
                 THEN EquivalentLoop(skip_children(l.it), skip_children(r.it), ptr_eq)
                 ELSE IF ~ShapeEq(At(liter.nodes, li), At(riter.nodes, ri))
                 THEN FALSE
                 ELSE EquivalentLoop(l.it, r.it, ptr_eq)

\* equivalent: both sides are walked with unique = false in the sorted
\* (Deterministic) ordering. The walkers are scratch that walk_nodes resets.
equivalent(left, right, lnodes, rnodes, ptr_eq) ==
    EquivalentLoop(walk_nodes(lnodes, left, FALSE, "Sorted"),
                   walk_nodes(rnodes, right, FALSE, "Sorted"),
                   ptr_eq)

\* eq_recursive: equivalent on one slice.
eq_recursive(nodes, li, ri) ==
    EquivalentLoop(walk_nodes(nodes, li, FALSE, "Sorted"),
                   walk_nodes(nodes, ri, FALSE, "Sorted"),
                   TRUE)

----------------------------------------------------------------------------
(* Structural hash: hash.rs.                                               *)

\* f64::to_bits, by its 16 most significant bits (sign, exponent and the top
\* of the mantissa), which tell the constants of this model apart.
to_bits(value) ==
    CASE value = 0 -> 0
      [] value = 1 -> 16368
      [] value = 2 -> 16384
      [] value = 3 -> 16392
      [] value = 4 -> 16400

\* DefaultHasher::finish. SipHash reads the words written and their number;
\* it is modelled as collision free, the digest being those words led by
\* their count. A u64 hash is therefore a sequence of integers.
finish(s) == <<Len(s)>> \o s

\* hash1 > hash2 on digests: the lexicographic order of the sequences.
HashGreater(h1, h2) ==
    \E k \in 1..(Len(h1) + 1) :
        /\ \A j \in 1..(k - 1) : j <= Len(h2) /\ h1[j] = h2[j]
        /\ \/ k <= Len(h1) /\ k > Len(h2)
           \/ k <= Len(h1) /\ k <= Len(h2) /\ h1[k] > h2[k]

\* hash_node without the swap of the operand hashes of a commutative node.
hash_node_no_swap(node, hashbuf) ==
    CASE node.tag = "Constant" -> <<to_bits(node.value)>>
      [] node.tag = "Symbol" -> finish(<<CharCode(node.label)>>)
      [] node.tag = "Unary" ->
            finish(<<UnaryOp_index(node.op)>> \o At(hashbuf, node.input))
      [] node.tag = "Binary" ->
            finish(<<BinaryOp_index(node.op)>> \o At(hashbuf, node.lhs)
                       \o At(hashbuf, node.rhs))

\* The body of the loop of hash_nodes: the hash of nodes[index], given the
\* hashes of the nodes before it.
hash_node(node, hashbuf) ==
    CASE node.tag = "Constant" -> <<to_bits(node.value)>>
      [] node.tag = "Symbol" -> finish(<<CharCode(node.label)>>)
      [] node.tag = "Unary" ->
            finish(<<UnaryOp_index(node.op)>> \o At(hashbuf, node.input))
      [] node.tag = "Binary" ->
            LET h1 == At(hashbuf, node.lhs)
                h2 == At(hashbuf, node.rhs)
                swap == is_commutative(node.op) /\ HashGreater(h1, h2)
                hash1 == IF swap THEN h2 ELSE h1
                hash2 == IF swap THEN h1 ELSE h2
            IN  finish(<<BinaryOp_index(node.op)>> \o hash1 \o hash2)

\* hash_nodes: one forward pass, hashbuf[index] from the entries before it.
RECURSIVE HashPass(_, _)
HashPass(nodes, hashbuf) ==
    IF Len(hashbuf) = Len(nodes)
    THEN hashbuf
    ELSE HashPass(nodes, Append(hashbuf, hash_node(nodes[Len(hashbuf) + 1], hashbuf)))

hash_nodes(nodes) == HashPass(nodes, <<>>)

\* Tree::hash
Tree_hash(nodes) == At(hash_nodes(nodes), root_index(nodes))

----------------------------------------------------------------------------
(* Trimmer: helper.rs.                                                     *)

\* Trimmer::new
Trimmer_new == [indices |-> <<>>, trimmed |-> <<>>]

\* The marking walk of trim: every node the unique walk yields gets (true, 1).
RECURSIVE MarkUsed(_, _)
MarkUsed(it, indices) ==
    LET step == DepthIterator_next(it)
    IN  IF step.item = None
        THEN indices
        ELSE MarkUsed(step.it, [indices EXCEPT ![step.item[1] + 1] = <<TRUE, 1>>])

\* The scan made inclusive: the running sum is stored after it is advanced.
RECURSIVE InclusiveScan(_, _, _)
InclusiveScan(indices, k, sum) ==
    IF k > Len(indices)
    THEN indices
    ELSE InclusiveScan([indices EXCEPT ![k] = <<indices[k][1], sum + indices[k][2]>>],
                       k + 1, sum + indices[k][2])

\* The exclusive scan of trim: (keep, i) becomes (keep, sum of the i before).
RECURSIVE ExclusiveScan(_, _, _)
ExclusiveScan(indices, k, sum) ==
    IF k > Len(indices)
    THEN indices
    ELSE ExclusiveScan([indices EXCEPT ![k] = <<indices[k][1], sum>>],
                       k + 1, sum + indices[k][2])

\* The map closure of trim: the operands of a kept node, renumbered.
TrimNode(node, indices) ==
    CASE node.tag = "Constant" -> Constant(node.value)
      [] node.tag = "Symbol" -> Symbol(node.label)
      [] node.tag = "Unary" -> Unary(node.op, indices[node.input + 1][2])
      [] node.tag = "Binary" ->
            Binary(node.op, indices[node.lhs + 1][2], indices[node.rhs + 1][2])

\* The filter of trim letting every node through.
RECURSIVE FilterMap_keep_all(_, _, _)
FilterMap_keep_all(nodes, indices, k) ==
    IF k > Len(nodes)
    THEN <<>>
    ELSE <<TrimNode(nodes[k], indices)>> \o FilterMap_keep_all(nodes, indices, k + 1)

\* The filter and map of trim, in index order.
RECURSIVE FilterMap(_, _, _)
FilterMap(nodes, indices, k) ==
    IF k > Len(nodes)
    THEN <<>>
    ELSE IF indices[k][1]
         THEN <<TrimNode(nodes[k], indices)>> \o FilterMap(nodes, indices, k + 1)
         ELSE FilterMap(nodes, indices, k + 1)

\* trim extending the input vector instead of the scratch buffer.
trim_extend_input(self, nodes, root) ==
    LET cleared == [k \in 1..Len(nodes) |-> <<FALSE, 0>>]
        marked == MarkUsed(walk_nodes(nodes, root, TRUE, "Original"), cleared)
        indices == ExclusiveScan(marked, 1, 0)
    IN  [nodes |-> nodes \o FilterMap(nodes, indices, 1),
         self |-> [indices |-> indices, trimmed |-> self.trimmed]]

\* Trimmer::trim. self.trimmed is extended, then swapped with nodes: the call
\* returns the extended buffer and leaves the input vector in self.trimmed.
trim(self, nodes, root) ==
    LET cleared == [k \in 1..Len(nodes) |-> <<FALSE, 0>>]
        marked == MarkUsed(walk_nodes(nodes, root, TRUE, "Original"), cleared)
        indices == ExclusiveScan(marked, 1, 0)
        trimmed == self.trimmed \o FilterMap(nodes, indices, 1)
    IN  [nodes |-> trimmed,
         self |-> [indices |-> indices, trimmed |-> nodes]]

----------------------------------------------------------------------------
(* Deduplicater: dedup.rs.                                                 *)

\* Deduplicater::calc_hashes: the pass of hash_nodes, into self.hashes.
calc_hashes(nodes) == HashPass(nodes, <<>>)

\* HashMap::entry(h).or_insert(i) on a map kept as a set of <<hash, index>>.
or_insert(hash_to_index, h, i) ==
    IF \E e \in hash_to_index : e[1] = h
    THEN hash_to_index
    ELSE hash_to_index \cup {<<h, i>>}

\* The value of the entry of h.
entry_of(hash_to_index, h) == (CHOOSE e \in hash_to_index : e[1] = h)[2]

\* The first loop of run: indices[i] becomes the first node with the hash of
\* node i when the two are equivalent.
RECURSIVE UniqueIndices(_, _, _, _, _)
UniqueIndices(nodes, hashes, hash_to_index, indices, i) ==
    IF i >= Len(hashes)
    THEN indices
    ELSE LET h == At(hashes, i)
             map == or_insert(hash_to_index, h, i)
             entry == entry_of(map, h)
         IN  UniqueIndices(
                 nodes, hashes, map,
                 IF entry # i /\ equivalent(entry, i, nodes, nodes, TRUE)
                 THEN [indices EXCEPT ![i + 1] = entry]
                 ELSE indices,
                 i + 1)

\* UpdateNode with the rhs of a Binary node rewired through the lhs.
UpdateNode_rhs_from_lhs(node, indices) ==
    CASE node.tag = "Constant" -> node
      [] node.tag = "Symbol" -> node
      [] node.tag = "Unary" -> Unary(node.op, At(indices, node.input))
      [] node.tag = "Binary" ->
            Binary(node.op, At(indices, node.lhs), At(indices, node.lhs))

\* The second loop of run: operands are replaced by their unique index.
UpdateNode(node, indices) ==
    CASE node.tag = "Constant" -> node
      [] node.tag = "Symbol" -> node
      [] node.tag = "Unary" -> Unary(node.op, At(indices, node.input))
      [] node.tag = "Binary" ->
            Binary(node.op, At(indices, node.lhs), At(indices, node.rhs))

\* Deduplicater::run
Deduplicater_run(nodes) ==
    LET indices == UniqueIndices(nodes, calc_hashes(nodes), {},
                                 [k \in 1..Len(nodes) |-> k - 1], 0)
    IN  [k \in 1..Len(nodes) |-> UpdateNode(nodes[k], indices)]

\* The first loop of run on the hashes left in self.hashes: self.indices.
Deduplicater_indices(nodes, hashes) ==
    UniqueIndices(nodes, hashes, {}, [k \in 1..Len(nodes) |-> k - 1], 0)

\* The second loop of run with every node replaced by the node it is mapped to.
Deduplicater_update_moving_nodes(nodes, indices) ==
    [k \in 1..Len(nodes) |-> UpdateNode(nodes[indices[k] + 1], indices)]

\* The second loop of run: every node of the vector updated in place.
Deduplicater_update(nodes, indices) ==
    [k \in 1..Len(nodes) |-> UpdateNode(nodes[k], indices)]

\* Tree::from_nodes / Tree::validate: admits a vector that is not empty, is
\* topologically ordered and has its indices in range.
from_nodes(nodes) ==
    IF Len(nodes) = 0
    THEN [ok |-> FALSE, err |-> "EmptyTree", tree |-> <<>>]
    ELSE IF \E k \in 0..(Len(nodes) - 1) :
                \/ At(nodes, k).tag = "Unary" /\ At(nodes, k).input >= Len(nodes)
                \/ At(nodes, k).tag = "Binary" /\
                      (At(nodes, k).lhs >= Len(nodes) \/ At(nodes, k).rhs >= Len(nodes))
    THEN [ok |-> FALSE, err |-> "IndexOutOfRange", tree |-> <<>>]
    ELSE IF \E k \in 0..(Len(nodes) - 1) :
                \/ At(nodes, k).tag = "Unary" /\ At(nodes, k).input >= k
                \/ At(nodes, k).tag = "Binary" /\
                      (At(nodes, k).lhs >= k \/ At(nodes, k).rhs >= k)
    THEN [ok |-> FALSE, err |-> "WrongNodeOrder", tree |-> <<>>]
    ELSE [ok |-> TRUE, err |-> "", tree |-> nodes]

\* Tree::deduplicate: a new Deduplicater and a new pruner, run on the nodes
\* taken from the tree, and the result validated.
deduplicate(self) ==
    LET root == root_index(self)
    IN  from_nodes(trim(Trimmer_new, Deduplicater_run(self), root).nodes)

----------------------------------------------------------------------------
(* Evaluator: eval.rs.                                                     *)

\* Option::Some
Some(value) == <<value>>

\* UnaryOp::apply, on the operators whose f64 result on an integer is that
\* integer operation's result. The other operators (Sqrt, Sin, Cos, Tan, Log,
\* Exp) leave the integers and are not applied in this model.
UnaryOp_apply(o, x) ==
    CASE o = "Negate" -> 0 - x
      [] o = "Abs" -> IF x < 0 THEN 0 - x ELSE x

\* BinaryOp::apply, likewise; Divide and Pow are not applied in this model.
BinaryOp_apply(o, a, b) ==
    CASE o = "Add" -> a + b
      [] o = "Subtract" -> a - b
      [] o = "Multiply" -> a * b
      [] o = "Min" -> IF a < b THEN a ELSE b
      [] o = "Max" -> IF a > b THEN a ELSE b

\* Evaluator::new
Evaluator_new(tree) == [k \in 1..Len(tree) |-> None]

\* set_var writing the value to every Symbol, whatever its label.
set_var_any_label(regs, tree, label, value) ==
    [k \in 1..Len(tree) |->
        IF tree[k].tag = "Symbol" THEN Some(value) ELSE regs[k]]

\* Evaluator::set_var
set_var(regs, tree, label, value) ==
    [k \in 1..Len(tree) |->
        IF tree[k].tag = "Symbol" /\ tree[k].label = label
        THEN Some(value)
        ELSE regs[k]]

\* Evaluator::run, from node idx on: [ok, err, val, label, regs], label being
\* the char of VariableNotFound.
RECURSIVE RunFrom(_, _, _)
RunFrom(regs, tree, idx) ==
    IF idx >= Len(tree)
    THEN IF At(regs, root_index(tree)) = None
         THEN [ok |-> FALSE, err |-> "UninitializedValueRead", val |-> 0,
               label |-> "", regs |-> regs]
         ELSE [ok |-> TRUE, err |-> "", val |-> At(regs, root_index(tree))[1],
               label |-> "", regs |-> regs]
    ELSE LET node == At(tree, idx)
         IN  CASE node.tag = "Constant" ->
                    RunFrom([regs EXCEPT ![idx + 1] = Some(node.value)], tree, idx + 1)
               [] node.tag = "Symbol" ->
                    IF At(regs, idx) = None
                    THEN [ok |-> FALSE, err |-> "VariableNotFound", val |-> 0,
                          label |-> node.label, regs |-> regs]
                    ELSE RunFrom(regs, tree, idx + 1)
               [] node.tag = "Binary" ->
                    IF At(regs, node.lhs) = None \/ At(regs, node.rhs) = None
                    THEN [ok |-> FALSE, err |-> "UninitializedValueRead",
                          val |-> 0, label |-> "", regs |-> regs]
                    ELSE RunFrom(
                             [regs EXCEPT ![idx + 1] =
                                 Some(BinaryOp_apply(node.op, At(regs, node.lhs)[1],
                                                     At(regs, node.rhs)[1]))],
                             tree, idx + 1)
               [] node.tag = "Unary" ->
                    IF At(regs, node.input) = None
                    THEN [ok |-> FALSE, err |-> "UninitializedValueRead",
                          val |-> 0, label |-> "", regs |-> regs]
                    ELSE RunFrom(
                             [regs EXCEPT ![idx + 1] =
                                 Some(UnaryOp_apply(node.op, At(regs, node.input)[1]))],
                             tree, idx + 1)

\* run taking 0 for a Symbol whose register is unset.
Evaluator_run_default_zero(regs, tree) ==
    RunFrom([k \in 1..Len(tree) |->
                IF tree[k].tag = "Symbol" /\ regs[k] = None THEN Some(0) ELSE regs[k]],
            tree, 0)

\* run starting its pass at node 1.
Evaluator_run_skip_first(regs, tree) == RunFrom(regs, tree, 1)

\* run handing its registers back empty.
Evaluator_run_take(regs, tree) ==
    [RunFrom(regs, tree, 0) EXCEPT !.regs = [k \in 1..Len(tree) |-> None]]

\* run computing the root node alone, from the registers as they stand.
Evaluator_run_from_root(regs, tree) == RunFrom(regs, tree, root_index(tree))

\* Evaluator::run
Evaluator_run(regs, tree) == RunFrom(regs, tree, 0)

----------------------------------------------------------------------------
(* Template: template.rs.                                                  *)

\* Template { ping, pong }
Template(ping, pong) == [ping |-> ping, pong |-> pong]

\* Template::from: both sides validated.
Template_from(ping, pong) ==
    IF ~from_nodes(ping).ok
    THEN [ok |-> FALSE, err |-> from_nodes(ping).err, template |-> <<>>]
    ELSE IF ~from_nodes(pong).ok
         THEN [ok |-> FALSE, err |-> from_nodes(pong).err, template |-> <<>>]
         ELSE [ok |-> TRUE, err |-> "",
               template |-> Template(from_nodes(ping).tree, from_nodes(pong).tree)]

\* The loop of mirror_templates pushing a clone of template i as it is.
RECURSIVE MirrorLoop_no_swap(_, _, _)
MirrorLoop_no_swap(templates, i, num) ==
    IF i >= num
    THEN templates
    ELSE MirrorLoop_no_swap(Append(templates, At(templates, i)), i + 1, num)

\* The loop of mirror_templates: for i in 0..num, push template i swapped.
RECURSIVE MirrorLoop(_, _, _)
MirrorLoop(templates, i, num) ==
    IF i >= num
    THEN templates
    ELSE MirrorLoop(
             Append(templates, Template(At(templates, i).pong, At(templates, i).ping)),
             i + 1, num)

\* Template::mirror_templates
mirror_templates(templates) == MirrorLoop(templates, 0, Len(templates))

\* The number of rules in the vec! handed to mirror_templates for TEMPLATES.
NumBuiltinTemplates == 18

\* The rules of TEMPLATES before mirroring. deftemplate! parses each rule to
\* its two node vectors; here rule i holds Constant(i) and Symbol x Negated
\* i times in their place.
BuiltinTemplates ==
    [i \in 1..NumBuiltinTemplates |->
        Template(<<Constant(i)>>,
                 [k \in 1..(i + 1) |-> IF k = 1 THEN Symbol("x") ELSE Unary("Negate", k - 2)])]

----------------------------------------------------------------------------
(* The inputs the model draws.                                             *)

Labels == {"x", "y"}

Leaves == {Symbol("x"), Symbol("y"), Constant(2)}

UnaryOps == {"Negate"}

BinaryOps == {"Add", "Subtract"}

\* The values a variable is bound to.
Values == {1, 3}

NoTree == <<>>

\* The trees are still being composed: a tree that deduplicate returned is
\* only deduplicated again.
Composing == op # "deduplicate"

NoArg == <<>>

\* The positions of the commutative Binary nodes of a vector.
CommutativeNodes(nodes) ==
    {k \in 1..Len(nodes) : nodes[k].tag = "Binary" /\ is_commutative(nodes[k].op)}

\* The vector with the two operands of the Binary nodes at positions S swapped.
SwapOperands(nodes, S) ==
    [k \in 1..Len(nodes) |->
        IF k \in S THEN Binary(nodes[k].op, nodes[k].rhs, nodes[k].lhs) ELSE nodes[k]]

----------------------------------------------------------------------------
(* Spec: trees built by composition, then hashed, compared, deduplicated.  *)

Init ==
    /\ lhs = NoTree
    /\ rhs = NoTree
    /\ op = "init"
    /\ arg = NoArg
    /\ out = NoArg
    /\ trimmer = Trimmer_new
    /\ eval = <<>>
    /\ TEMPLATES = <<>>

\* let lhs: Tree = node.into();
NewLhs ==
    /\ Composing
    /\ lhs = NoTree
    /\ Len(rhs) + 1 <= MaxLen
    /\ \E node \in Leaves :
          /\ lhs' = Tree_new(node)
          /\ arg' = [node |-> node]
    /\ op' = "new"
    /\ out' = NoArg
    /\ UNCHANGED rhs
    /\ UNCHANGED <<trimmer, eval, TEMPLATES>>

\* let rhs: Tree = node.into();
NewRhs ==
    /\ Composing
    /\ rhs = NoTree
    /\ Len(lhs) + 1 <= MaxLen
    /\ \E node \in Leaves :
          /\ rhs' = Tree_new(node)
          /\ arg' = [node |-> node]
    /\ op' = "new"
    /\ out' = NoArg
    /\ UNCHANGED lhs
    /\ UNCHANGED <<trimmer, eval, TEMPLATES>>

\* lhs = lhs.unary_op(o)
UnaryOpLhs ==
    /\ Composing
    /\ lhs # NoTree
    /\ Len(lhs) + Len(rhs) + 1 <= MaxLen
    /\ \E o \in UnaryOps :
          /\ lhs' = unary_op(lhs, o)
          /\ arg' = [self |-> lhs, op |-> o]
    /\ op' = "unary_op"
    /\ out' = NoArg
    /\ UNCHANGED rhs
    /\ UNCHANGED <<trimmer, eval, TEMPLATES>>

\* lhs = lhs.binary_op(rhs, o): both trees are moved into the call.
BinaryOpLhs ==
    /\ Composing
    /\ lhs # NoTree
    /\ rhs # NoTree
    /\ Len(lhs) + Len(rhs) + 1 <= MaxLen
    /\ \E o \in BinaryOps :
          /\ lhs' = binary_op(lhs, rhs, o)
          /\ arg' = [self |-> lhs, other |-> rhs, op |-> o]
    /\ rhs' = NoTree
    /\ op' = "binary_op"
    /\ out' = NoArg
    /\ UNCHANGED <<trimmer, eval, TEMPLATES>>

\* std::mem::swap(&mut lhs, &mut rhs): the caller picks the operand order.
SwapTrees ==
    /\ Composing
    /\ lhs # rhs
    /\ lhs' = rhs
    /\ rhs' = lhs
    /\ op' = "swap"
    /\ arg' = NoArg
    /\ out' = NoArg
    /\ UNCHANGED <<trimmer, eval, TEMPLATES>>

\* rhs = Tree::from_nodes(the nodes of lhs, with the operands of some of its
\* commutative Binary nodes swapped), as the tests mirror Binary(Add, 5, 2).
MirrorLhs ==
    /\ Composing
    /\ lhs # NoTree
    /\ rhs = NoTree
    /\ \E S \in SUBSET CommutativeNodes(lhs) :
          /\ S # {}
          /\ rhs' = from_nodes(SwapOperands(lhs, S)).tree
          /\ arg' = [swapped |-> S]
    /\ op' = "mirror"
    /\ out' = NoArg
    /\ UNCHANGED lhs
    /\ UNCHANGED <<trimmer, eval, TEMPLATES>>

\* lhs.hash(&mut hashbuf) and rhs.hash(&mut hashbuf)
HashTrees ==
    /\ Composing
    /\ lhs # NoTree
    /\ rhs # NoTree
    /\ op' = "hash"
    /\ arg' = NoArg
    /\ out' = [lhs |-> Tree_hash(lhs), rhs |-> Tree_hash(rhs)]
    /\ UNCHANGED <<lhs, rhs>>
    /\ UNCHANGED <<trimmer, eval, TEMPLATES>>

\* equivalent(lhs.root_index(), rhs.root_index(), lhs.nodes(), rhs.nodes(), ..)
\* on the vectors of two trees, which are two objects.
EquivalentTrees ==
    /\ Composing
    /\ lhs # NoTree
    /\ rhs # NoTree
    /\ op' = "equivalent"
    /\ arg' = NoArg
    /\ out' = equivalent(root_index(lhs), root_index(rhs), lhs, rhs, FALSE)
    /\ UNCHANGED <<lhs, rhs>>
    /\ UNCHANGED <<trimmer, eval, TEMPLATES>>

\* lhs = lhs.deduplicate(), with no other tree alive: the tree is consumed;
\* arg.again tells that the tree consumed was itself returned by deduplicate.
Deduplicate ==
    /\ lhs # NoTree
    /\ rhs = NoTree
    /\ op' = "deduplicate"
    /\ arg' = [self |-> lhs, again |-> (op = "deduplicate")]
    /\ out' = deduplicate(lhs)
    /\ lhs' = out'.tree
    /\ UNCHANGED rhs
    /\ UNCHANGED <<trimmer, eval, TEMPLATES>>

Next ==
    \/ NewLhs
    \/ NewRhs
    \/ UnaryOpLhs
    \/ BinaryOpLhs
    \/ SwapTrees
    \/ MirrorLhs
    \/ HashTrees
    \/ EquivalentTrees
    \/ Deduplicate

Spec == Init /\ [][Next]_vars

----------------------------------------------------------------------------
(* SpecNodes: node vectors pushed node by node and admitted by from_nodes, *)
(* then compared index against index on the one slice.                     *)

NodeLeaves == {Symbol("x"), Symbol("y")}

NodeUnaryOps == {"Negate"}

NodeBinaryOps == {"Add", "Subtract"}

\* The nodes that keep a vector of k nodes topologically ordered.
NodeChoices(k) ==
    NodeLeaves
        \cup {Unary(o, i) : o \in NodeUnaryOps, i \in 0..(k - 1)}
        \cup {Binary(o, l, r) : o \in NodeBinaryOps, l \in 0..(k - 1), r \in 0..(k - 1)}

\* nodes.push(node); Tree::from_nodes(nodes)
PushNode ==
    /\ Len(lhs) < MaxNodes
    /\ \E node \in NodeChoices(Len(lhs)) :
          /\ lhs' = from_nodes(Append(lhs, node)).tree
          /\ arg' = [node |-> node]
    /\ op' = "from_nodes"
    /\ out' = NoArg
    /\ UNCHANGED rhs
    /\ UNCHANGED <<trimmer, eval, TEMPLATES>>

\* equivalent(i, j, &nodes, &nodes, ..) and eq_recursive(&nodes, i, j, ..) for
\* every pair of indices of the vector.
EquivalentAll ==
    /\ lhs # NoTree
    /\ op' = "equivalent_all"
    /\ arg' = NoArg
    /\ out' = [equivalent |->
                  [i \in 0..(Len(lhs) - 1) |->
                      [j \in 0..(Len(lhs) - 1) |-> equivalent(i, j, lhs, lhs, TRUE)]],
               eq_recursive |->
                  [i \in 0..(Len(lhs) - 1) |->
                      [j \in 0..(Len(lhs) - 1) |-> eq_recursive(lhs, i, j)]]]
    /\ UNCHANGED <<lhs, rhs>>
    /\ UNCHANGED <<trimmer, eval, TEMPLATES>>

NextNodes ==
    \/ PushNode
    \/ EquivalentAll

SpecNodes == Init /\ [][NextNodes]_vars

----------------------------------------------------------------------------
(* SpecDag: layered node vectors admitted by from_nodes, then deduplicated.*)
(* A vector holds two symbols, their negations, three Binary nodes over    *)
(* the negations and a Binary root over two of those, so that it may hold  *)
(* shared and unreachable nodes.                                           *)

DagInputs ==
    {<<Symbol("x"), Symbol(b), Unary("Negate", 0), Unary("Negate", 1),
       Binary(o, p[1], p[2]), Binary(o, p[3], p[4]), Binary(o, p[5], p[6]),
       Binary(r, s, t)>> :
        b \in Labels, o \in BinaryOps, r \in BinaryOps,
        p \in [1..6 -> {2, 3}], s \in 4..6, t \in 4..6}

\* let tree = Tree::from_nodes(nodes)
InitDag ==
    /\ lhs \in {from_nodes(nodes).tree : nodes \in DagInputs}
    /\ rhs = NoTree
    /\ op = "from_nodes"
    /\ arg = NoArg
    /\ out = NoArg
    /\ trimmer = Trimmer_new
    /\ eval = <<>>
    /\ TEMPLATES = <<>>

NextDag == Deduplicate

SpecDag == InitDag /\ [][NextDag]_vars

----------------------------------------------------------------------------
(* SpecTrim: a node vector pushed node by node and trimmed, from any root, *)
(* by one Trimmer that is used call after call.                            *)

TrimLeaves == {Symbol("x"), Constant(2)}

TrimUnaryOps == {"Negate"}

TrimBinaryOps == {"Subtract"}

\* The nodes that keep a vector of k nodes topologically ordered.
TrimChoices(k) ==
    TrimLeaves
        \cup {Unary(o, i) : o \in TrimUnaryOps, i \in 0..(k - 1)}
        \cup {Binary(o, l, r) : o \in TrimBinaryOps, l \in 0..(k - 1), r \in 0..(k - 1)}

\* nodes.push(node)
PushTrimNode ==
    /\ Len(lhs) < MaxTrimNodes
    /\ \E node \in TrimChoices(Len(lhs)) :
          /\ lhs' = Append(lhs, node)
          /\ arg' = [node |-> node]
    /\ op' = "push"
    /\ out' = NoArg
    /\ UNCHANGED <<rhs, trimmer, eval, TEMPLATES>>

\* let out = trimmer.trim(nodes.clone(), root_index, &mut walker);
\* arg.reused tells that the Trimmer had served a call before.
Trim ==
    /\ lhs # NoTree
    /\ \E root \in 0..(Len(lhs) - 1) :
          /\ out' = trim(trimmer, lhs, root).nodes
          /\ trimmer' = trim(trimmer, lhs, root).self
          /\ arg' = [nodes |-> lhs, root_index |-> root,
                     reused |-> (trimmer # Trimmer_new)]
    /\ op' = "trim"
    /\ UNCHANGED <<lhs, rhs, eval, TEMPLATES>>

NextTrim ==
    \/ PushTrimNode
    \/ Trim

SpecTrim == Init /\ [][NextTrim]_vars

----------------------------------------------------------------------------
(* SpecEval: a tree admitted by from_nodes and one Evaluator of it, given  *)
(* set_var and run calls in any order.                                     *)

NoEvaluator == <<>>

EvalLeaves == {Symbol("x"), Symbol("y"), Constant(2)}

EvalUnaryOps == {"Negate"}

EvalBinaryOps == {"Subtract"}

\* The nodes that keep a vector of k nodes topologically ordered.
EvalChoices(k) ==
    EvalLeaves
        \cup {Unary(o, i) : o \in EvalUnaryOps, i \in 0..(k - 1)}
        \cup {Binary(o, l, r) : o \in EvalBinaryOps, l \in 0..(k - 1), r \in 0..(k - 1)}

\* nodes.push(node); let tree = Tree::from_nodes(nodes), before an Evaluator
\* borrows the tree.
PushEvalNode ==
    /\ eval = NoEvaluator
    /\ Len(lhs) < MaxEvalNodes
    /\ \E node \in EvalChoices(Len(lhs)) :
          /\ lhs' = from_nodes(Append(lhs, node)).tree
          /\ arg' = [node |-> node]
    /\ op' = "from_nodes"
    /\ out' = NoArg
    /\ UNCHANGED <<rhs, trimmer, eval, TEMPLATES>>

\* let mut eval = Evaluator::new(&tree)
NewEvaluator ==
    /\ lhs # NoTree
    /\ eval = NoEvaluator
    /\ eval' = Evaluator_new(lhs)
    /\ op' = "new"
    /\ arg' = NoArg
    /\ out' = NoArg
    /\ UNCHANGED <<lhs, rhs, trimmer, TEMPLATES>>

\* eval.set_var(label, value); arg.regs are the registers before the call.
SetVar ==
    /\ eval # NoEvaluator
    /\ \E label \in Labels, value \in Values :
          /\ eval' = set_var(eval, lhs, label, value)
          /\ arg' = [label |-> label, value |-> value, regs |-> eval]
    /\ op' = "set_var"
    /\ out' = NoArg
    /\ UNCHANGED <<lhs, rhs, trimmer, TEMPLATES>>

\* eval.run(); arg.regs are the registers before the call, and arg.prev is
\* the result of the call before when that was a run (arg.again).
Run ==
    /\ eval # NoEvaluator
    /\ eval' = Evaluator_run(eval, lhs).regs
    /\ out' = [ok |-> Evaluator_run(eval, lhs).ok,
               err |-> Evaluator_run(eval, lhs).err,
               val |-> Evaluator_run(eval, lhs).val,
               label |-> Evaluator_run(eval, lhs).label]
    /\ arg' = [regs |-> eval, again |-> (op = "run"),
               prev |-> IF op = "run" THEN out ELSE NoArg]
    /\ op' = "run"
    /\ UNCHANGED <<lhs, rhs, trimmer, TEMPLATES>>

NextEval ==
    \/ PushEvalNode
    \/ NewEvaluator
    \/ SetVar
    \/ Run

SpecEval == Init /\ [][NextEval]_vars

----------------------------------------------------------------------------
(* SpecTemplates: a Vec<Template> pushed rule by rule and mirrored, or the *)
(* rules of TEMPLATES mirrored.                                            *)

TemplateSides ==
    {<<Symbol("x")>>, <<Constant(2)>>, <<Symbol("x"), Unary("Negate", 0)>>}

\* templates.push(Template::from(ping, pong).unwrap())
PushTemplate ==
    /\ op \in {"init", "push"}
    /\ Len(TEMPLATES) < MaxTemplates
    /\ \E ping \in TemplateSides, pong \in TemplateSides :
          /\ Template_from(ping, pong).ok
          /\ TEMPLATES' = Append(TEMPLATES, Template_from(ping, pong).template)
          /\ arg' = [ping |-> ping, pong |-> pong]
    /\ op' = "push"
    /\ out' = NoArg
    /\ UNCHANGED <<lhs, rhs, trimmer, eval>>

\* let templates = Template::mirror_templates(templates)
MirrorTemplates ==
    /\ op \in {"init", "push"}
    /\ TEMPLATES' = mirror_templates(TEMPLATES)
    /\ arg' = [templates |-> TEMPLATES]
    /\ op' = "mirror_templates"
    /\ out' = NoArg
    /\ UNCHANGED <<lhs, rhs, trimmer, eval>>

\* static ref TEMPLATES = Template::mirror_templates(vec![..])
LoadTemplates ==
    /\ op = "init"
    /\ TEMPLATES' = mirror_templates(BuiltinTemplates)
    /\ arg' = [templates |-> BuiltinTemplates]
    /\ op' = "load_templates"
    /\ out' = NoArg
    /\ UNCHANGED <<lhs, rhs, trimmer, eval>>

NextTemplates ==
    \/ PushTemplate
    \/ MirrorTemplates
    \/ LoadTemplates

SpecTemplates == Init /\ [][NextTemplates]_vars

----------------------------------------------------------------------------
(* SpecRun: a node vector pushed node by node and given to                 *)
(* Deduplicater::run, under the hasher or under a hasher with collisions.  *)

RunLeaves == {Symbol("x"), Symbol("y")}

RunBinaryOps == {"Add", "Subtract"}

\* The nodes that keep a vector of k nodes topologically ordered.
RunChoices(k) ==
    RunLeaves
        \cup {Binary(o, l, r) : o \in RunBinaryOps, l \in 0..(k - 1), r \in 0..(k - 1)}

\* The values a hasher with collisions returns.
HashValues == {<<0>>, <<1>>}

\* What calc_hashes may leave in self.hashes: the hashes of hash_nodes, or
\* those hashes sent by a 64-bit hasher onto colliding values.
PossibleHashes(nodes) ==
    LET hashes == calc_hashes(nodes)
        range == {hashes[k] : k \in 1..Len(hashes)}
    IN  {hashes} \cup
        {[k \in 1..Len(hashes) |-> collide[hashes[k]]] : collide \in [range -> HashValues]}

\* nodes.push(node)
PushRunNode ==
    /\ op \in {"init", "push"}
    /\ Len(lhs) < MaxRunNodes
    /\ \E node \in RunChoices(Len(lhs)) :
          /\ lhs' = Append(lhs, node)
          /\ arg' = [node |-> node]
    /\ op' = "push"
    /\ out' = NoArg
    /\ UNCHANGED <<rhs, trimmer, eval, TEMPLATES>>

\* let out = dedup.run(nodes): arg.hashes and out.indices are self.hashes and
\* self.indices as the call leaves them.
DeduplicaterRun ==
    /\ op = "push"
    /\ \E hashes \in PossibleHashes(lhs) :
          /\ arg' = [nodes |-> lhs, hashes |-> hashes,
                     collisions |-> (hashes # calc_hashes(lhs))]
          /\ out' = [indices |-> Deduplicater_indices(lhs, hashes),
                     nodes |-> Deduplicater_update(lhs, Deduplicater_indices(lhs, hashes))]
    /\ lhs' = NoTree
    /\ op' = "run"
    /\ UNCHANGED <<rhs, trimmer, eval, TEMPLATES>>

NextRun ==
    \/ PushRunNode
    \/ DeduplicaterRun

SpecRun == Init /\ [][NextRun]_vars

----------------------------------------------------------------------------
(* SpecWalk: a node vector pushed node by node and walked from any root,   *)
(* to the end, with one skip_children call, or by depth_first_traverse.    *)

WalkLeaves == {Symbol("x"), Constant(2)}

WalkUnaryOps == {"Negate"}

WalkBinaryOps == {"Subtract"}

NodeOrdering == {"Original", "Sorted"}

\* The nodes that keep a vector of k nodes topologically ordered.
WalkChoices(k) ==
    WalkLeaves
        \cup {Unary(o, i) : o \in WalkUnaryOps, i \in 0..(k - 1)}
        \cup {Binary(o, l, r) : o \in WalkBinaryOps, l \in 0..(k - 1), r \in 0..(k - 1)}

\* nodes.push(node)
PushWalkNode ==
    /\ op \in {"init", "push"}
    /\ Len(lhs) < MaxWalkNodes
    /\ \E node \in WalkChoices(Len(lhs)) :
          /\ lhs' = Append(lhs, node)
          /\ arg' = [node |-> node]
    /\ op' = "push"
    /\ out' = NoArg
    /\ UNCHANGED <<rhs, trimmer, eval, TEMPLATES>>

\* walker.walk_nodes(&nodes, root_index, unique, ordering).collect()
Walk ==
    /\ op = "push"
    /\ \E root \in 0..(Len(lhs) - 1), unique \in BOOLEAN, ordering \in NodeOrdering :
          /\ arg' = [root_index |-> root, unique |-> unique, ordering |-> ordering]
          /\ out' = [items |-> Collect(walk_nodes(lhs, root, unique, ordering), <<>>)]
    /\ op' = "walk"
    /\ UNCHANGED <<lhs, rhs, trimmer, eval, TEMPLATES>>

\* A walk in which skip_children is called once, right after the item number
\* arg.skip was yielded; out.before and out.after are the stack around that
\* call.
WalkSkipping ==
    /\ op = "push"
    /\ \E root \in 0..(Len(lhs) - 1), unique \in BOOLEAN, ordering \in NodeOrdering :
          \E s \in 1..Len(Collect(walk_nodes(lhs, root, unique, ordering), <<>>)) :
              /\ arg' = [root_index |-> root, unique |-> unique, ordering |-> ordering,
                         skip |-> s]
              /\ out' = [items |-> CollectSkipping(
                                       walk_nodes(lhs, root, unique, ordering), s, <<>>),
                         before |-> Advance(walk_nodes(lhs, root, unique, ordering), s).stack,
                         after |-> skip_children(
                                       Advance(walk_nodes(lhs, root, unique, ordering), s)).stack]
    /\ op' = "walk_skipping"
    /\ UNCHANGED <<lhs, rhs, trimmer, eval, TEMPLATES>>

\* tree.depth_first_traverse(visitor) on Tree::from_nodes(nodes)
TraverseTree ==
    /\ op = "push"
    /\ from_nodes(lhs).ok
    /\ arg' = NoArg
    /\ out' = [items |-> depth_first_traverse(from_nodes(lhs).tree)]
    /\ op' = "depth_first_traverse"
    /\ UNCHANGED <<lhs, rhs, trimmer, eval, TEMPLATES>>

NextWalk ==
    \/ PushWalkNode
    \/ Walk
    \/ WalkSkipping
    \/ TraverseTree

SpecWalk == Init /\ [][NextWalk]_vars

----------------------------------------------------------------------------
(* Validity of a node vector: the Tree invariants.                         *)

TopoOrdered(nodes) ==
    \A k \in 0..(Len(nodes) - 1) :
        LET node == At(nodes, k)
        IN  /\ node.tag = "Unary" => node.input < k
            /\ node.tag = "Binary" => (node.lhs < k /\ node.rhs < k)

InBounds(nodes) ==
    \A k \in 0..(Len(nodes) - 1) :
        LET node == At(nodes, k)
        IN  /\ node.tag = "Unary" => node.input \in 0..(Len(nodes) - 1)
            /\ node.tag = "Binary" =>
                  (node.lhs \in 0..(Len(nodes) - 1) /\ node.rhs \in 0..(Len(nodes) - 1))

ValidTree(nodes) ==
    /\ Len(nodes) >= 1
    /\ TopoOrdered(nodes)
    /\ InBounds(nodes)

----------------------------------------------------------------------------
(* What the claims read.                                                   *)

\* The bindings of the variables.
Bindings == [Labels -> Values]

\* Evaluator::new(tree), set_var of every label, run.
Evaluate(tree, sigma) ==
    LET regs0 == Evaluator_new(tree)
        regs1 == set_var(regs0, tree, "x", sigma["x"])
        regs2 == set_var(regs1, tree, "y", sigma["y"])
    IN  Evaluator_run(regs2, tree)

\* Node i of ln and node j of rn denote the same expression up to the order
\* of the operands of commutative operators.
RECURSIVE CommEquiv(_, _, _, _)
CommEquiv(ln, i, rn, j) ==
    LET a == At(ln, i)
        b == At(rn, j)
    IN  /\ ShapeEq(a, b)
        /\ a.tag = "Unary" => CommEquiv(ln, a.input, rn, b.input)
        /\ a.tag = "Binary" =>
              \/ CommEquiv(ln, a.lhs, rn, b.lhs) /\ CommEquiv(ln, a.rhs, rn, b.rhs)
              \/ /\ is_commutative(a.op)
                 /\ CommEquiv(ln, a.lhs, rn, b.rhs)
                 /\ CommEquiv(ln, a.rhs, rn, b.lhs)

\* A node with its operand indices moved by d.
Shifted(node, d) ==
    IF node.tag = "Unary"
    THEN [node EXCEPT !.input = @ + d]
    ELSE IF node.tag = "Binary"
         THEN [node EXCEPT !.lhs = @ + d, !.rhs = @ + d]
         ELSE node

\* C1: every tree made from singleton trees by binary_op and unary_op is not
\* empty, is topologically ordered, has every operand index in [0, len) and
\* has its root, the node the last composition made, at index len - 1.
C1_ComposedTreeValid ==
    Composing =>
        /\ \A t \in {lhs, rhs} \ {NoTree} :
              /\ Len(t) >= 1
              /\ TopoOrdered(t)
              /\ InBounds(t)
              /\ root_index(t) = Len(t) - 1
        /\ op = "binary_op" =>
              /\ At(lhs, root_index(lhs)).tag = "Binary"
              /\ At(lhs, root_index(lhs)).op = arg.op
        /\ op = "unary_op" =>
              /\ At(lhs, root_index(lhs)).tag = "Unary"
              /\ At(lhs, root_index(lhs)).op = arg.op

C1_Witness ==
    /\ op = "binary_op"
    /\ Len(arg.self) >= 2
    /\ Len(arg.other) >= 3
    /\ \E k \in 1..Len(arg.other) : arg.other[k].tag = "Binary"

\* C2: binary_op(lhs, rhs, op) is lhs.nodes, then rhs.nodes with every
\* operand index moved by |lhs.nodes|, then Binary(op, |lhs.nodes| - 1,
\* |lhs.nodes| + |rhs.nodes| - 1); the nodes of lhs are not modified.
C2_BinaryOpLayout ==
    op = "binary_op" =>
        LET n == Len(arg.self)
            m == Len(arg.other)
        IN  /\ Len(lhs) = n + m + 1
            /\ \A k \in 1..n : lhs[k] = arg.self[k]
            /\ \A k \in 1..m : lhs[n + k] = Shifted(arg.other[k], n)
            /\ lhs[n + m + 1] = Binary(arg.op, n - 1, n + m - 1)

C2_Witness ==
    /\ op = "binary_op"
    /\ Len(arg.self) >= 2
    /\ \E k \in 1..Len(arg.other) : arg.other[k].tag = "Binary"
    /\ \E k \in 1..Len(arg.other) : arg.other[k].tag = "Unary"

\* C3: under every binding of the variables, the tree deduplicate returns
\* evaluates to the value the tree it consumed evaluates to.
C3_DedupPreservesValue ==
    (op = "deduplicate" /\ out.ok) =>
        \A sigma \in Bindings :
            LET before == Evaluate(arg.self, sigma)
                after == Evaluate(out.tree, sigma)
            IN  (before.ok /\ after.ok) => before.val = after.val

C3_Witness ==
    /\ op = "deduplicate"
    /\ out.ok
    /\ Len(out.tree) + 2 <= Len(arg.self)
    /\ \E sigma \in Bindings : Evaluate(out.tree, sigma).ok
    /\ \E s1, s2 \in Bindings : Evaluate(out.tree, s1).val # Evaluate(out.tree, s2).val

\* C4: deduplicate applied to a tree that deduplicate returned returns a tree
\* of the same length that evaluates to the same value under every binding.
C4_DedupIdempotent ==
    (op = "deduplicate" /\ arg.again /\ out.ok) =>
        /\ Len(out.tree) = Len(arg.self)
        /\ \A sigma \in Bindings :
              Evaluate(out.tree, sigma).val = Evaluate(arg.self, sigma).val

\* The second deduplicate merges two Add nodes that the first one, which only
\* dropped an unreachable node, had left apart.
C4_SecondRunShrinks ==
    /\ op = "deduplicate"
    /\ arg.again
    /\ out.ok
    /\ Len(arg.self) = 7
    /\ Len(out.tree) = 6
    /\ \A sigma \in Bindings :
          Evaluate(out.tree, sigma).val = Evaluate(arg.self, sigma).val

\* C5: the tree deduplicate returns is no longer than the tree it consumed.
C5_DedupNoLonger ==
    (op = "deduplicate" /\ out.ok) => Len(out.tree) <= Len(arg.self)

C5_Witness ==
    /\ op = "deduplicate"
    /\ out.ok
    /\ Len(out.tree) < Len(arg.self)

\* C6: deduplicate returns Ok on every valid tree, and the tree returned is
\* not empty, is topologically ordered, has its operand indices in bounds and
\* has at its last position a node denoting the root expression of the tree
\* consumed.
C6_DedupReturnsValidTree ==
    op = "deduplicate" =>
        /\ out.ok
        /\ ValidTree(out.tree)
        /\ CommEquiv(arg.self, root_index(arg.self), out.tree, Len(out.tree) - 1)

C6_Witness ==
    /\ op = "deduplicate"
    /\ out.ok
    /\ Len(out.tree) < Len(arg.self)
    /\ Len(out.tree) >= 4

\* C7: two trees whose roots denote the same expression up to the order of
\* the operands of commutative operators (Add, Multiply, Min, Max), at any
\* depth, have the same structural hash.
C7_HashCommutative ==
    (op = "hash" /\ CommEquiv(lhs, root_index(lhs), rhs, root_index(rhs))) =>
        out.lhs = out.rhs

C7_Witness ==
    /\ op = "hash"
    /\ Len(lhs) >= 5
    /\ \E S \in SUBSET CommutativeNodes(lhs) :
          /\ Cardinality(S) >= 2
          /\ rhs = SwapOperands(lhs, S)
          /\ rhs # lhs
    /\ out.lhs = out.rhs

\* C8: equivalent returns true on two subtrees of which one is the other with
\* the operands of commutative Binary nodes permuted, at any depth.
C8_EquivalentCommutative ==
    (op = "equivalent" /\ CommEquiv(lhs, root_index(lhs), rhs, root_index(rhs))) =>
        out = TRUE

\* Add(Negate 2, Negate x) against Add(Negate x, Negate 2): the operands have
\* the same shape, so the sort leaves them as they stand.
C8_MirroredSumDistinguished ==
    /\ op = "equivalent"
    /\ lhs = <<Constant(2), Unary("Negate", 0), Symbol("x"), Unary("Negate", 2),
               Binary("Add", 1, 3)>>
    /\ rhs = SwapOperands(lhs, {5})
    /\ out = FALSE

\* C9: for a non-commutative operator (Subtract, Divide, Pow) and operands a
\* and b that do not denote the same expression, equivalent returns false on
\* op(a, b) against op(b, a).
C9_NonCommutativeDistinct ==
    op = "equivalent_all" =>
        \A i, j \in 0..(Len(lhs) - 1) :
            LET a == At(lhs, i)
                b == At(lhs, j)
            IN  (/\ a.tag = "Binary"
                 /\ b.tag = "Binary"
                 /\ a.op = b.op
                 /\ ~is_commutative(a.op)
                 /\ CommEquiv(lhs, a.lhs, lhs, b.rhs)
                 /\ CommEquiv(lhs, a.rhs, lhs, b.lhs)
                 /\ ~CommEquiv(lhs, a.lhs, lhs, a.rhs))
                => out.equivalent[i][j] = FALSE

\* Subtract(y, x) against Subtract(x, y) on one slice.
C9_MirroredDifferenceEquated ==
    /\ op = "equivalent_all"
    /\ lhs = <<Symbol("y"), Symbol("x"), Binary("Subtract", 0, 1),
               Binary("Subtract", 1, 0)>>
    /\ out.equivalent[2][3] = TRUE

\* C10: on one slice, equivalent and eq_recursive are reflexive, symmetric
\* and transitive on the node indices.
C10_EquivalenceRelation ==
    op = "equivalent_all" =>
        \A f \in {"equivalent", "eq_recursive"} :
            \A i, j, k \in 0..(Len(lhs) - 1) :
                /\ out[f][i][i]
                /\ out[f][i][j] = out[f][j][i]
                /\ (out[f][i][j] /\ out[f][j][k]) => out[f][i][k]

\* Three nodes that are pairwise equivalent, two of them sharing an operand,
\* so that the walks of a pair meet on one index.
C10_Witness ==
    /\ op = "equivalent_all"
    /\ Len(lhs) = 4
    /\ \E i, j, k \in 0..(Len(lhs) - 1) :
          /\ i # j /\ j # k /\ i # k
          /\ out.equivalent[i][j] /\ out.equivalent[j][k] /\ out.equivalent[i][k]
          /\ At(lhs, j).tag = "Unary"
          /\ At(lhs, k).tag = "Unary"
          /\ At(lhs, j).input = At(lhs, k).input

\* The indices of the nodes reachable from node i.
RECURSIVE Reach(_, _)
Reach(nodes, i) ==
    LET node == At(nodes, i)
    IN  {i} \cup
        (CASE node.tag = "Unary" -> Reach(nodes, node.input)
           [] node.tag = "Binary" -> Reach(nodes, node.lhs) \cup Reach(nodes, node.rhs)
           [] OTHER -> {})

\* The expression node i denotes, as a term.
RECURSIVE Expr(_, _)
Expr(nodes, i) ==
    LET node == At(nodes, i)
    IN  CASE node.tag = "Unary" -> <<node.op, Expr(nodes, node.input)>>
          [] node.tag = "Binary" ->
                <<node.op, Expr(nodes, node.lhs), Expr(nodes, node.rhs)>>
          [] OTHER -> <<node>>

\* The number of members of S below i: the new position of a kept node i.
Rank(S, i) == Cardinality({j \in S : j < i})

\* C11: trim on a new Trimmer returns as many nodes as are reachable from
\* root_index in the input, and every node returned is reachable from the
\* last node returned.
C11_TrimKeepsReachable ==
    (op = "trim" /\ ~arg.reused) =>
        /\ Len(out) = Cardinality(Reach(arg.nodes, arg.root_index))
        /\ Reach(out, Len(out) - 1) = 0..(Len(out) - 1)

\* A new Trimmer dropping nodes of a vector whose root has a shared operand.
C11_Witness ==
    /\ op = "trim"
    /\ ~arg.reused
    /\ Len(arg.nodes) = 4
    /\ Len(out) = 3
    /\ At(out, 2).tag = "Binary"
    /\ At(out, 2).lhs = 1
    /\ At(out, 2).rhs = 1

\* C12: trim returns the reachable nodes in their original order, each with
\* its tag, operator, constant or label, each operand referring to the new
\* position of the node it referred to; the result is topologically ordered,
\* ends with the root and denotes at its end what the root denoted.
C12_TrimLayout ==
    op = "trim" =>
        LET live == Reach(arg.nodes, arg.root_index)
        IN  /\ Len(out) = Cardinality(live)
            /\ \A i \in live :
                  LET old == At(arg.nodes, i)
                      new == At(out, Rank(live, i))
                  IN  /\ new.tag = old.tag
                      /\ old.tag = "Constant" => new.value = old.value
                      /\ old.tag = "Symbol" => new.label = old.label
                      /\ old.tag = "Unary" =>
                            /\ new.op = old.op
                            /\ new.input = Rank(live, old.input)
                      /\ old.tag = "Binary" =>
                            /\ new.op = old.op
                            /\ new.lhs = Rank(live, old.lhs)
                            /\ new.rhs = Rank(live, old.rhs)
            /\ TopoOrdered(out)
            /\ Rank(live, arg.root_index) = Len(out) - 1
            /\ Expr(out, Len(out) - 1) = Expr(arg.nodes, arg.root_index)

\* The second call of a Trimmer on [x, Negate 0] from root 1: the result
\* starts with the vector of the call before.
C12_OperandsMisplaced ==
    /\ op = "trim"
    /\ arg.reused
    /\ arg.nodes = <<Symbol("x"), Unary("Negate", 0)>>
    /\ arg.root_index = 1
    /\ Len(out) > 2
    /\ At(out, Len(out) - 1) = Unary("Negate", 0)
    /\ At(out, Len(out) - 2) = Symbol("x")

\* C19: every call of trim on a Trimmer returns what a new Trimmer returns
\* for the same nodes and root_index.
C19_TrimmerReusable ==
    op = "trim" => out = trim(Trimmer_new, arg.nodes, arg.root_index).nodes

\* A call on a used Trimmer returning more nodes than it was given.
C19_StaleNodesReturned ==
    /\ op = "trim"
    /\ arg.reused
    /\ Len(out) > Len(arg.nodes)
    /\ trim(Trimmer_new, arg.nodes, arg.root_index).nodes # out

\* The positions (from 1) of the Symbol nodes of a tree.
SymbolNodes(tree) == {k \in 1..Len(tree) : tree[k].tag = "Symbol"}

\* The value of the expression at node i, the Symbol nodes read from regs.
RECURSIVE Value(_, _, _)
Value(tree, regs, i) ==
    LET node == At(tree, i)
    IN  CASE node.tag = "Constant" -> node.value
          [] node.tag = "Symbol" -> At(regs, i)[1]
          [] node.tag = "Unary" -> UnaryOp_apply(node.op, Value(tree, regs, node.input))
          [] node.tag = "Binary" ->
                BinaryOp_apply(node.op, Value(tree, regs, node.lhs),
                               Value(tree, regs, node.rhs))

\* C13: set_var(label, value) leaves Some(value) in the register of every
\* Symbol(label) node, whatever it held, and every other register as it was.
C13_SetVarFrame ==
    op = "set_var" =>
        /\ Len(eval) = Len(lhs)
        /\ \A k \in 1..Len(lhs) :
              IF lhs[k] = Symbol(arg.label)
              THEN eval[k] = Some(arg.value)
              ELSE eval[k] = arg.regs[k]

\* set_var of a label bound before to another value, on a tree that holds a
\* Symbol of another label that is bound and a node a run has written.
C13_Witness ==
    /\ op = "set_var"
    /\ \E k \in 1..Len(lhs) :
          /\ lhs[k] = Symbol(arg.label)
          /\ arg.regs[k] # None
          /\ arg.regs[k] # Some(arg.value)
          /\ eval[k] = Some(arg.value)
    /\ \E k \in SymbolNodes(lhs) :
          /\ lhs[k].label # arg.label
          /\ eval[k] # None
    /\ \E k \in 1..Len(lhs) :
          /\ lhs[k].tag \in {"Unary", "Binary"}
          /\ eval[k] # None

\* C14: run returns VariableNotFound exactly when some Symbol node has an
\* unset register, and the label returned is that of the first such node.
C14_VariableNotFound ==
    op = "run" =>
        LET unset == {k \in SymbolNodes(lhs) : arg.regs[k] = None}
        IN  /\ (out.err = "VariableNotFound") <=> (unset # {})
            /\ unset # {} =>
                  out.label = lhs[CHOOSE k \in unset : \A j \in unset : k <= j].label

\* run on Negate(x) over two unset Symbols of different labels, and run with
\* the first Symbol set and the second not.
C14_Witness ==
    /\ op = "run"
    /\ Len(lhs) = 3
    /\ lhs[1].tag = "Symbol"
    /\ lhs[2].tag = "Symbol"
    /\ lhs[1].label # lhs[2].label
    /\ lhs[3].tag = "Unary"
    /\ arg.regs[1] # None
    /\ arg.regs[2] = None
    /\ out.err = "VariableNotFound"
    /\ out.label = lhs[2].label

\* C15: no run of an Evaluator of an admitted tree returns
\* UninitializedValueRead, whatever set_var and run calls came before.
C15_NoUninitializedRead ==
    op = "run" => out.err # "UninitializedValueRead"

\* A run that succeeds after a run that failed with VariableNotFound midway.
C15_Witness ==
    /\ op = "run"
    /\ out.ok
    /\ \E k \in 1..Len(lhs) :
          /\ lhs[k].tag \in {"Unary", "Binary"}
          /\ arg.regs[k] = None
    /\ \E k \in 1..Len(lhs) :
          /\ lhs[k].tag = "Constant"
          /\ arg.regs[k] # None

\* C16: run leaves the registers of the Symbol nodes as they were; a run
\* right after a run returns what that one returned; a run that succeeds
\* returns what a new Evaluator with the same Symbol registers returns.
C16_RunKeepsBindings ==
    op = "run" =>
        /\ \A k \in SymbolNodes(lhs) : eval[k] = arg.regs[k]
        /\ arg.again => out = arg.prev
        /\ out.ok =>
              out.val = Evaluator_run(
                            [k \in 1..Len(lhs) |->
                                IF k \in SymbolNodes(lhs) THEN arg.regs[k] ELSE None],
                            lhs).val

\* A second run in a row that succeeds, on registers holding values of
\* an earlier binding.
C16_Witness ==
    /\ op = "run"
    /\ arg.again
    /\ out.ok
    /\ arg.prev.ok
    /\ Cardinality({lhs[k].label : k \in SymbolNodes(lhs)}) = 2
    /\ lhs[Len(lhs)].tag = "Binary"

\* C17: when every Symbol register is set, run returns Ok of the value of the
\* root expression under the bindings and leaves in every register the value
\* of the expression at that node, whatever the other registers held.
C17_RunComputesValue ==
    (op = "run" /\ \A k \in SymbolNodes(lhs) : arg.regs[k] # None) =>
        /\ out.ok
        /\ out.val = Value(lhs, arg.regs, root_index(lhs))
        /\ \A i \in 0..(Len(lhs) - 1) : At(eval, i) = Some(Value(lhs, arg.regs, i))

\* A run over a register of a Unary or Binary node that holds the value of
\* another binding.
C17_Witness ==
    /\ op = "run"
    /\ out.ok
    /\ \E i \in 0..(Len(lhs) - 1) :
          /\ At(lhs, i).tag \in {"Unary", "Binary"}
          /\ At(arg.regs, i) # None
          /\ At(arg.regs, i) # At(eval, i)

\* C18: mirror_templates of n templates returns 2n templates, the first n
\* being the templates given, in order, and template n + i being template i
\* with ping and pong exchanged; TEMPLATES holds at least 36 templates.
C18_MirrorDoubles ==
    op \in {"mirror_templates", "load_templates"} =>
        LET n == Len(arg.templates)
        IN  /\ Len(TEMPLATES) = 2 * n
            /\ \A i \in 1..n :
                  /\ TEMPLATES[i] = arg.templates[i]
                  /\ TEMPLATES[n + i].ping = arg.templates[i].pong
                  /\ TEMPLATES[n + i].pong = arg.templates[i].ping
            /\ op = "load_templates" => Len(TEMPLATES) >= 36

\* Three templates mirrored, of which two differ and one has two sides that
\* differ.
C18_Witness ==
    /\ op = "mirror_templates"
    /\ Len(arg.templates) = 3
    /\ Len(TEMPLATES) = 6
    /\ arg.templates[1] # arg.templates[2]
    /\ arg.templates[1].ping # arg.templates[1].pong
    /\ TEMPLATES[4] # TEMPLATES[1]

\* The lowest index of a node denoting what node i denotes, up to the order
\* of the operands of commutative operators.
Representative(nodes, i) ==
    CHOOSE j \in 0..i :
        /\ CommEquiv(nodes, j, nodes, i)
        /\ \A k \in 0..(j - 1) : ~CommEquiv(nodes, k, nodes, i)

\* C20: Deduplicater::run leaves every operand index at the lowest-index node
\* denoting what its target denoted, so that the tree deduplicate returns
\* holds no two nodes denoting the same expression and is as long as the
\* number of distinct expressions under the root of the tree consumed.
C20_OneRepresentative ==
    (op = "deduplicate" /\ out.ok) =>
        LET nodes == arg.self
            ran == Deduplicater_run(nodes)
        IN  /\ \A k \in 1..Len(nodes) :
                  /\ nodes[k].tag = "Unary" =>
                        ran[k].input = Representative(nodes, nodes[k].input)
                  /\ nodes[k].tag = "Binary" =>
                        /\ ran[k].lhs = Representative(nodes, nodes[k].lhs)
                        /\ ran[k].rhs = Representative(nodes, nodes[k].rhs)
            /\ \A i, j \in 0..(Len(out.tree) - 1) :
                  CommEquiv(out.tree, i, out.tree, j) => i = j
            /\ Len(out.tree) =
                  Cardinality({Representative(nodes, i) : i \in Reach(nodes, root_index(nodes))})

\* [x, y, Negate 0, Negate 1, Add(2,3), Add(3,2), Add(3,2), Subtract(4,5)]:
\* the tree returned still holds Add(2,3) and Add(3,2), seven nodes for six
\* expressions.
C20_MirroredSumKept ==
    /\ op = "deduplicate"
    /\ out.ok
    /\ arg.self = <<Symbol("x"), Symbol("y"), Unary("Negate", 0), Unary("Negate", 1),
                    Binary("Add", 2, 3), Binary("Add", 3, 2), Binary("Add", 3, 2),
                    Binary("Subtract", 4, 5)>>
    /\ out.tree = <<Symbol("x"), Symbol("y"), Unary("Negate", 0), Unary("Negate", 1),
                    Binary("Add", 2, 3), Binary("Add", 3, 2), Binary("Subtract", 4, 5)>>

\* C21: whatever the hashes, run maps node i to node j only when the two
\* denote the same expression up to the order of the operands of commutative
\* operators, so that every node of the vector returned denotes what it
\* denoted.
C21_MergeOnlyEquivalent ==
    op = "run" =>
        /\ \A i \in 0..(Len(arg.nodes) - 1) :
              CommEquiv(arg.nodes, At(out.indices, i), arg.nodes, i)
        /\ \A i \in 0..(Len(arg.nodes) - 1) :
              CommEquiv(out.nodes, i, arg.nodes, i)

\* [x, y, Subtract(0,1), Subtract(1,0), ..] with the two Subtract nodes on
\* one hash value: node 3 is mapped to node 2.
C21_MirroredDifferenceMerged ==
    /\ op = "run"
    /\ arg.collisions
    /\ Len(arg.nodes) = 4
    /\ arg.nodes[1] = Symbol("x")
    /\ arg.nodes[2] = Symbol("y")
    /\ arg.nodes[3] = Binary("Subtract", 0, 1)
    /\ arg.nodes[4] = Binary("Subtract", 1, 0)
    /\ arg.hashes[3] = arg.hashes[4]
    /\ At(out.indices, 3) = 2

\* C22: run returns as many nodes as it was given, each with its tag,
\* operator, value or label, each operand x replaced by indices[x], where
\* indices[x] <= x and indices[indices[x]] = indices[x]; the vector returned
\* is topologically ordered with its indices in bounds.
C22_RunFrame ==
    op = "run" =>
        /\ Len(out.nodes) = Len(arg.nodes)
        /\ Len(out.indices) = Len(arg.nodes)
        /\ \A x \in 0..(Len(arg.nodes) - 1) :
              /\ At(out.indices, x) \in 0..x
              /\ At(out.indices, At(out.indices, x)) = At(out.indices, x)
        /\ \A k \in 1..Len(arg.nodes) :
              LET old == arg.nodes[k]
                  new == out.nodes[k]
              IN  /\ new.tag = old.tag
                  /\ old.tag \in {"Constant", "Symbol"} => new = old
                  /\ old.tag = "Unary" =>
                        /\ new.op = old.op
                        /\ new.input = At(out.indices, old.input)
                  /\ old.tag = "Binary" =>
                        /\ new.op = old.op
                        /\ new.lhs = At(out.indices, old.lhs)
                        /\ new.rhs = At(out.indices, old.rhs)
        /\ TopoOrdered(out.nodes)
        /\ InBounds(out.nodes)

\* A run under the hasher that maps a node to an earlier one, changes an
\* operand of a later node and leaves the mapped node, now dead, in place.
C22_Witness ==
    /\ op = "run"
    /\ ~arg.collisions
    /\ Len(arg.nodes) = 4
    /\ At(out.indices, 2) = 1
    /\ arg.nodes[4].tag = "Binary"
    /\ arg.nodes[4].lhs = 2
    /\ out.nodes[4].lhs = 1
    /\ out.nodes[3] = arg.nodes[3]

\* The operands of node i in the order a walk visits them: lhs before rhs,
\* except that a Sorted walk visits the rhs first when it is the greater.
Operands(nodes, i, ordering) ==
    LET node == At(nodes, i)
    IN  CASE node.tag = "Unary" -> <<node.input>>
          [] node.tag = "Binary" ->
                IF /\ ordering = "Sorted"
                   /\ partial_cmp(At(nodes, node.rhs), At(nodes, node.lhs)) = "Greater"
                THEN <<node.rhs, node.lhs>>
                ELSE <<node.lhs, node.rhs>>
          [] OTHER -> <<>>

\* The depth-first traversal from node i by recursion, appended to done: a
\* node is recorded before its operands; when unique, a node recorded before
\* is passed over; the record number cut, and every record of node leaf,
\* is taken to have no operands.
RECURSIVE Traversal(_, _, _, _, _, _, _, _)
Traversal(nodes, i, parent, unique, ordering, cut, leaf, done) ==
    IF unique /\ \E k \in 1..Len(done) : done[k][1] = i
    THEN done
    ELSE LET me == Append(done, <<i, parent>>)
             ops == IF Len(me) = cut \/ i = leaf THEN <<>> ELSE Operands(nodes, i, ordering)
         IN  IF Len(ops) = 0
             THEN me
             ELSE IF Len(ops) = 1
             THEN Traversal(nodes, ops[1], i, unique, ordering, cut, leaf, me)
             ELSE Traversal(nodes, ops[2], i, unique, ordering, cut, leaf,
                            Traversal(nodes, ops[1], i, unique, ordering, cut, leaf, me))

\* The left-first pre-order of the expression at node i expanded as a tree.
RECURSIVE PreOrder(_, _, _)
PreOrder(nodes, i, parent) ==
    LET node == At(nodes, i)
    IN  <<<<i, parent>>>> \o
        (CASE node.tag = "Unary" -> PreOrder(nodes, node.input, i)
           [] node.tag = "Binary" ->
                 PreOrder(nodes, node.lhs, i) \o PreOrder(nodes, node.rhs, i)
           [] OTHER -> <<>>)

\* The number of paths from node i down to node j.
RECURSIVE Paths(_, _, _)
Paths(nodes, i, j) ==
    LET node == At(nodes, i)
    IN  IF i = j
        THEN 1
        ELSE CASE node.tag = "Unary" -> Paths(nodes, node.input, j)
               [] node.tag = "Binary" ->
                     Paths(nodes, node.lhs, j) + Paths(nodes, node.rhs, j)
               [] OTHER -> 0

\* C23: a walk with unique = true ends, yields the nodes reachable from the
\* root, each once; the root comes first with no parent; every other node
\* comes with a parent yielded before it, of which it is an operand, and
\* which is its parent where the expanded traversal first meets the node.
C23_UniqueWalk ==
    (op = "walk" /\ arg.unique) =>
        LET items == out.items
            full == Traversal(lhs, arg.root_index, NoParent, FALSE, arg.ordering,
                              0, NoParent, <<>>)
        IN  /\ {items[k][1] : k \in 1..Len(items)} = Reach(lhs, arg.root_index)
            /\ Len(items) = Cardinality(Reach(lhs, arg.root_index))
            /\ items[1] = <<arg.root_index, NoParent>>
            /\ \A k \in 2..Len(items) :
                  /\ \E j \in 1..(k - 1) : items[j][1] = items[k][2]
                  /\ \E n \in 1..Len(Operands(lhs, items[k][2], arg.ordering)) :
                        Operands(lhs, items[k][2], arg.ordering)[n] = items[k][1]
                  /\ \E f \in 1..Len(full) :
                        /\ full[f] = items[k]
                        /\ \A e \in 1..(f - 1) : full[e][1] # items[k][1]

\* A unique walk from the last of four nodes that passes over a frame of a
\* node it has yielded, the node having two parents.
C23_Witness ==
    /\ op = "walk"
    /\ arg.unique
    /\ Len(lhs) = 4
    /\ arg.root_index = 3
    /\ Len(out.items) = 4
    /\ \E i \in 0..2 :
          Cardinality({k \in 1..Len(lhs) :
                          \E n \in 1..Len(Operands(lhs, k - 1, "Original")) :
                              Operands(lhs, k - 1, "Original")[n] = i}) = 2

\* C24: a walk with unique = false and Original ordering, and
\* depth_first_traverse, yield the left-first pre-order of the expression
\* expanded as a tree; a node is yielded once for every path from the root.
C24_PreOrderWalk ==
    /\ (op = "walk" /\ ~arg.unique /\ arg.ordering = "Original") =>
          /\ out.items = PreOrder(lhs, arg.root_index, NoParent)
          /\ \A i \in 0..(Len(lhs) - 1) :
                Cardinality({k \in 1..Len(out.items) : out.items[k][1] = i})
                    = Paths(lhs, arg.root_index, i)
    /\ op = "depth_first_traverse" =>
          out.items = PreOrder(lhs, root_index(lhs), NoParent)

\* A walk that yields a shared node of a Binary root twice, the operands of
\* the root being different nodes.
C24_Witness ==
    /\ op = "walk"
    /\ ~arg.unique
    /\ arg.ordering = "Original"
    /\ At(lhs, arg.root_index).tag = "Binary"
    /\ At(lhs, arg.root_index).lhs > At(lhs, arg.root_index).rhs
    /\ \E i \in 0..(Len(lhs) - 1) :
          Cardinality({k \in 1..Len(out.items) : out.items[k][1] = i}) = 2

\* C25, as amended: skip_children called right after next yielded node n
\* pops the frames pushed for the operands of n and no other; the walk goes
\* on as if that one visit of n had found a node without operands.
C25_SkipChildrenOfVisit ==
    op = "walk_skipping" =>
        LET n == out.items[arg.skip][1]
            pushed == Len(Operands(lhs, n, arg.ordering))
        IN  /\ Len(out.after) = Len(out.before) - pushed
            /\ out.after = SubSeq(out.before, 1, Len(out.before) - pushed)
            /\ \A k \in (Len(out.after) + 1)..Len(out.before) : out.before[k][2] = n
            /\ out.items = Traversal(lhs, arg.root_index, NoParent, arg.unique,
                                     arg.ordering, arg.skip, NoParent, <<>>)

\* skip_children after a Binary node with two different operands, in a walk
\* that goes on to yield other nodes.
C25_Witness ==
    /\ op = "walk_skipping"
    /\ At(lhs, out.items[arg.skip][1]).tag = "Binary"
    /\ At(lhs, out.items[arg.skip][1]).lhs # At(lhs, out.items[arg.skip][1]).rhs
    /\ Len(out.before) - Len(out.after) = 2
    /\ Len(out.items) > arg.skip
    /\ arg.skip > 1

\* C25, as stated: after the skip_children call the walk yields no node
\* with parent n and is the walk that results when n is a leaf.
C25_SkipChildrenOfNode ==
    op = "walk_skipping" =>
        LET n == out.items[arg.skip][1]
        IN  /\ \A k \in (arg.skip + 1)..Len(out.items) : out.items[k][2] # n
            /\ out.items = Traversal(lhs, arg.root_index, NoParent, arg.unique,
                                     arg.ordering, 0, n, <<>>)

====
